---- MODULE Spec2Model ----
(***************************************************************************)
(* State-machine model of the dating bot: the record store of db.py (users, *)
(* profiles, likes), the three ConversationHandlers of main.py with their   *)
(* per-user states, the per-user user_data dictionary, and the handlers.    *)
(*                                                                          *)
(* Updates are processed one at a time (main.py:489 builds the Application  *)
(* without concurrent_updates), so a handler is one atomic action.  The one *)
(* exception is db.create_user: it runs a transaction on one connection and *)
(* credits the referrer through a second connection, so its intermediate    *)
(* store states are modelled as states of their own (variable txn); a       *)
(* concurrent reader of the store sees exactly the committed tables users,  *)
(* profiles and likes.                                                      *)
(*                                                                          *)
(* A nullable value is a sequence of length 0 (NULL / None / missing key)   *)
(* or 1 (the value).                                                        *)
(***************************************************************************)
EXTENDS Integers, Sequences, FiniteSets, TLC

\* ---------------------------------------------------------------- bounds

\* Telegram user ids that exist in the modelled world.
Users == {1, 2, 3}

\* db.py:13, the allow-list read from the environment.
ADMIN_USER_IDS == {1}

\* First names Telegram may report for a user.
Names == {"Ann", "Bob"}

\* The values str(uuid.uuid4())[:8] may take, and "/start" payloads.
Codes == {"c1", "c2", "c3"}

\* Non-command text messages a user may send.
Genders == {"Male", "Female", "Other"}
AgeTexts == {"17", "18", "99", "100", "abc"}
BioTexts == {"hi"}
LocationTexts == {"Oslo"}
PhotoFiles == {"ph1"}
AdminLines == {"2", "9", "x", "2 100", "3 -150", "9 100", "2 x", "2 2147483647"}

\* The cursor is not advanced beyond this value.
MaxIndex == 3

\* At most this many admin coin grants are applied in one behaviour.
MaxGrants == 2

\* ------------------------------------------------------- program constants

InitialCoins == 100
ReferralReward == 50
MinAge == 18
MaxAge == 99
SearchLimit == 20
\* Column coins is INTEGER (db.py:30): four bytes, signed.
IntegerMax == 2147483647
IntegerMin == 0 - IntegerMax - 1

END == "END"

Null == <<>>
Some(x) == <<x>>
IsNull(o) == o = <<>>
Val(o) == o[1]

\* ---------------------------------------------------------------- state

VARIABLES
    users,          \* committed rows of table users: id -> row
    profiles,       \* committed rows of table profiles: id -> row
    likes,          \* committed rows of table likes: set of <<liker, liked>>
    txn,            \* the open create_user transaction, if any
    conv,           \* conv_handler's state per user
    search_conv,    \* search_conv_handler's state per user
    admin_conv,     \* admin_conv_handler's state per user
    user_data,      \* context.user_data per user
    shown,          \* per user: the candidates whose Like/Next keyboard was sent
    grants,         \* the coin grants applied so far: <<target, amount>>, in order
    last            \* the update handled last and what its handler answered

vars == <<users, profiles, likes, txn, conv, search_conv, admin_conv,
          user_data, shown, grants, last>>

store == <<users, profiles, likes>>
sessions == <<conv, search_conv, admin_conv, user_data, shown>>

\* ------------------------------------------------------------- text input

\* int(text) of main.py: the value, or Null for ValueError.
IntOf(t) ==
    CASE t = "17" -> Some(17)
      [] t = "18" -> Some(18)
      [] t = "99" -> Some(99)
      [] t = "100" -> Some(100)
      [] t = "-150" -> Some(0 - 150)
      [] t = "2" -> Some(2)
      [] t = "3" -> Some(3)
      [] t = "9" -> Some(9)
      [] t = "2147483647" -> Some(2147483647)
      [] OTHER -> Null

\* text.split() of main.py:416.
Split(t) ==
    CASE t = "2 100" -> <<"2", "100">>
      [] t = "3 -150" -> <<"3", "-150">>
      [] t = "9 100" -> <<"9", "100">>
      [] t = "2 x" -> <<"2", "x">>
      [] t = "2 2147483647" -> <<"2", "2147483647">>
      [] OTHER -> <<t>>

TextInputs == Genders \cup AgeTexts \cup BioTexts \cup LocationTexts \cup AdminLines

\* Faulty variant: a pattern that ignores case.
IsGenderText_ignoring_case(t) == t \in Genders \cup {"male", "female", "other"}

\* filters.Regex("^(Male|Female|Other)$")
IsGenderText(t) == t \in Genders

\* ------------------------------------------------------------------ db.py

EmptyProfile ==
    [gender |-> Null, age |-> Null, bio |-> Null, photo_id |-> Null, location |-> Null]

\* created_at, DEFAULT NOW(), is the number of rows inserted before this one.
NewUserRow(name, code, referred_by, created_at) ==
    [name |-> name, coins |-> InitialCoins, is_premium |-> FALSE, is_banned |-> FALSE,
     referral_code |-> code, referred_by |-> referred_by, created_at |-> created_at]

\* Faulty variant: a user_exists that finds no row.
user_exists_always_false(user_id) == FALSE

user_exists(user_id) == user_id \in DOMAIN users

is_banned(user_id) ==
    IF user_id \in DOMAIN users THEN users[user_id].is_banned ELSE FALSE

is_admin(user_id) == user_id \in ADMIN_USER_IDS

\* The column that f"UPDATE profiles SET {field} = $1 WHERE user_id = $2"
\* assigns $1 to: the field itself when it names a column of profiles other
\* than the key; the last target when the field is a piece of SQL that makes
\* the statement assign several columns; Null when the statement is not valid
\* (no such column) and the call raises.
assigned_column(field) ==
    CASE field \in {"gender", "age", "bio", "photo_id", "location"} -> Some(field)
      [] field = "bio = bio, gender" -> Some("gender")
      [] OTHER -> Null

\* Faulty variant: an update_profile that writes another column.
update_profile_wrong_column(p, user_id, field, value) ==
    IF user_id \in DOMAIN p THEN [p EXCEPT ![user_id]["bio"] = Some(value)] ELSE p

\* Faulty variant: an UPDATE without the WHERE clause.
update_profile_every_user(p, user_id, field, value) ==
    [o \in DOMAIN p |-> [p[o] EXCEPT ![field] = Some(value)]]

\* UPDATE profiles SET field = value WHERE user_id = ...
update_profile(p, user_id, field, value) ==
    IF user_id \in DOMAIN p /\ ~IsNull(assigned_column(field))
    THEN [p EXCEPT ![user_id][Val(assigned_column(field))] = Some(value)]
    ELSE p

\* SELECT ... FROM users u JOIN profiles p ...: the joined row, or Null.
get_user_profile(user_id) ==
    IF user_id \in DOMAIN users /\ user_id \in DOMAIN profiles
    THEN Some([name |-> users[user_id].name, coins |-> users[user_id].coins,
               is_premium |-> users[user_id].is_premium,
               gender |-> profiles[user_id].gender, age |-> profiles[user_id].age,
               bio |-> profiles[user_id].bio, photo_id |-> profiles[user_id].photo_id,
               location |-> profiles[user_id].location])
    ELSE Null

\* Faulty variant: an add_coins that adds the amount twice.
add_coins_twice(u, user_id, amount) ==
    IF user_id \in DOMAIN u
    THEN [u EXCEPT ![user_id].coins = @ + amount + amount]
    ELSE u

\* UPDATE users SET coins = coins + amount WHERE user_id = ...
\* Faulty variant: an UPDATE without the WHERE clause.
add_coins_everyone(u, user_id, amount) ==
    [o \in DOMAIN u |-> [u[o] EXCEPT !.coins = @ + amount]]

\* Faulty variant: an add_coins that writes a balance computed from a value
\* read earlier (the balance at creation), so that credits made in between
\* are lost.
add_coins_from_stale_balance(u, user_id, amount) ==
    IF user_id \in DOMAIN u
    THEN [u EXCEPT ![user_id].coins = InitialCoins + amount]
    ELSE u

add_coins(u, user_id, amount) ==
    IF user_id \in DOMAIN u THEN [u EXCEPT ![user_id].coins = @ + amount] ELSE u

set_premium_status(u, user_id, status) ==
    IF user_id \in DOMAIN u THEN [u EXCEPT ![user_id].is_premium = status] ELSE u

set_ban_status(u, user_id, status) ==
    IF user_id \in DOMAIN u THEN [u EXCEPT ![user_id].is_banned = status] ELSE u

get_referral_code(user_id) ==
    IF user_id \in DOMAIN users THEN Some(users[user_id].referral_code) ELSE Null

get_referral_count(user_id) ==
    IF IsNull(get_referral_code(user_id))
    THEN 0
    ELSE Cardinality({a \in DOMAIN users :
                        users[a].referred_by = get_referral_code(user_id)})

\* The sequences ORDER BY RANDOM() LIMIT n may return from the rows S.
RECURSIVE Orderings(_, _)
Orderings(S, n) ==
    IF n = 0 \/ S = {}
    THEN {<<>>}
    ELSE UNION {{<<x>> \o s : s \in Orderings(S \ {x}, n - 1)} : x \in S}

\* Faulty variant: a WHERE clause without the is_banned test.
search_matches_banned_too(id, searcher_id, g, min_age, max_age) ==
    /\ id \in DOMAIN profiles /\ id \in DOMAIN users
    /\ profiles[id].gender = Some(g)
    /\ ~IsNull(profiles[id].age)
    /\ min_age <= Val(profiles[id].age) /\ Val(profiles[id].age) <= max_age
    /\ id # searcher_id

\* The WHERE clause of search_users.
search_matches(id, searcher_id, g, min_age, max_age) ==
    /\ id \in DOMAIN profiles /\ id \in DOMAIN users
    /\ profiles[id].gender = Some(g)
    /\ ~IsNull(profiles[id].age)
    /\ min_age <= Val(profiles[id].age) /\ Val(profiles[id].age) <= max_age
    /\ id # searcher_id
    /\ users[id].is_banned = FALSE

search_users(searcher_id, g, min_age, max_age) ==
    Orderings({id \in Users : search_matches(id, searcher_id, g, min_age, max_age)},
              SearchLimit)

\* ------------------------------------------------------------ construction

NoTxn == Null

EmptyUserData ==
    [search_gender |-> Null, search_age_min |-> Null,
     search_results |-> Null, search_index |-> Null]

\* What is remembered of the update handled last: who sent it, the handler
\* that took it, its text / file / callback data, and the handler's answer.
Reply(u, h, i, r) ==
    [user |-> u, handler |-> h, input |-> i, reply |-> r, rendered |-> Null]

\* The handler's answer is the profile card of candidate target.
Rendered(u, h, i, target) ==
    [user |-> u, handler |-> h, input |-> i, reply |-> "profile",
     rendered |-> Some(target)]

\* context.args[0] if context.args else None, as text ("" when absent).
Arg(payload) == IF IsNull(payload) THEN "" ELSE Val(payload)

Init ==
    /\ users = <<>>
    /\ profiles = <<>>
    /\ likes = {}
    /\ txn = NoTxn
    /\ conv = [u \in Users |-> END]
    /\ search_conv = [u \in Users |-> END]
    /\ admin_conv = [u \in Users |-> END]
    /\ user_data = [u \in Users |-> EmptyUserData]
    /\ shown = [u \in Users |-> {}]
    /\ grants = <<>>
    /\ last = Reply(0, "init", "", "none")

\* No handler runs while another one is running.
Idle == txn = NoTxn

\* ------------------------------------------- dispatch of a text message

\* conv_handler's state handlers take the text (main.py:495-499).
conv_takes_text(u, t) ==
    \/ conv[u] \in {"AGE", "BIO", "LOCATION"}
    \/ conv[u] = "GENDER" /\ IsGenderText(t)

\* search_conv_handler's state handlers take it (main.py:508-510).
search_takes_text(u, t) ==
    /\ ~conv_takes_text(u, t)
    /\ \/ search_conv[u] \in {"SEARCH_AGE_MIN", "SEARCH_AGE_MAX"}
       \/ search_conv[u] = "SEARCH_GENDER" /\ IsGenderText(t)

\* admin_conv_handler's state handlers take it (main.py:522-525).
admin_takes_text(u, t) ==
    /\ ~conv_takes_text(u, t)
    /\ ~search_takes_text(u, t)
    /\ admin_conv[u] \in {"ADMIN_GRANT_COINS", "ADMIN_GRANT_PREMIUM",
                          "ADMIN_BAN_USER", "ADMIN_UNBAN_USER"}

\* No handler of main.py:531-536 takes the text: the update is dropped.
unhandled_text(u, t) ==
    /\ Idle
    /\ ~conv_takes_text(u, t)
    /\ ~search_takes_text(u, t)
    /\ ~admin_takes_text(u, t)
    /\ last' = Reply(u, "none", t, "unhandled")
    /\ UNCHANGED <<store, txn, sessions, grants>>

\* ------------------------------------------- /start and db.create_user

\* Faulty variant: a start without the user_exists test; create_user returns at
\* once for a stored user and start goes on to ask for the gender.
start_without_exists_test(u, name, payload, code) ==
    /\ Idle
    /\ conv[u] = END
    /\ IF u \in DOMAIN users
       THEN /\ conv' = [conv EXCEPT ![u] = "GENDER"]
            /\ last' = Reply(u, "start", Arg(payload), "ask_gender")
            /\ UNCHANGED <<store, txn, search_conv, admin_conv, user_data, shown, grants>>
       ELSE IF \E o \in DOMAIN users : users[o].referral_code = code
       THEN /\ last' = Reply(u, "start", Arg(payload), "integrity_error")
            /\ UNCHANGED <<store, txn, sessions, grants>>
       ELSE /\ txn' = Some([user_id |-> u, name |-> name,
                            referral_code |-> code, referred_by |-> payload,
                            credited |-> FALSE])
            /\ last' = Reply(u, "start", Arg(payload), "pending")
            /\ UNCHANGED <<store, sessions, grants>>

\* start, up to and including the INSERTs of create_user.
\* code: the value str(uuid.uuid4())[:8] takes in this call.
start(u, name, payload, code) ==
    /\ Idle
    /\ conv[u] = END
    /\ IF user_exists(u)
       THEN /\ last' = Reply(u, "start", Arg(payload), "welcome_back")
            /\ UNCHANGED <<store, txn, sessions, grants>>
       ELSE IF \/ u \in DOMAIN users
               \/ \E o \in DOMAIN users : users[o].referral_code = code
       THEN \* the INSERT violates a uniqueness constraint and raises
            /\ last' = Reply(u, "start", Arg(payload), "integrity_error")
            /\ UNCHANGED <<store, txn, sessions, grants>>
       ELSE /\ txn' = Some([user_id |-> u, name |-> name,
                            referral_code |-> code, referred_by |-> payload,
                            credited |-> FALSE])
            /\ last' = Reply(u, "start", Arg(payload), "pending")
            /\ UNCHANGED <<store, sessions, grants>>

\* SELECT user_id FROM users WHERE referral_code = ..., inside the transaction:
\* it sees the committed rows and the row the transaction inserted.
txn_referrer ==
    IF IsNull(txn) \/ IsNull(Val(txn).referred_by)
    THEN {}
    ELSE {o \in DOMAIN users : Some(users[o].referral_code) = Val(txn).referred_by}
         \cup (IF Some(Val(txn).referral_code) = Val(txn).referred_by
               THEN {Val(txn).user_id} ELSE {})

\* add_coins(referrer_id, 50), on a connection of its own (db.py:107, 191).
\* ok = FALSE: the call raises, the exception leaves the transaction block,
\* which rolls back, and start raises.
create_user_credit(ok) ==
    /\ ~IsNull(txn)
    /\ ~Val(txn).credited
    /\ txn_referrer # {}
    /\ IF ok
       THEN /\ \E r \in txn_referrer : users' = add_coins(users, r, ReferralReward)
            /\ txn' = Some([Val(txn) EXCEPT !.credited = TRUE])
            /\ UNCHANGED <<profiles, likes, sessions, grants, last>>
       ELSE /\ txn' = NoTxn
            /\ last' = Reply(Val(txn).user_id, "start", Arg(Val(txn).referred_by),
                             "credit_error")
            /\ UNCHANGED <<store, sessions, grants>>

\* The transaction commits; start asks for the gender and returns GENDER.
create_user_commit ==
    /\ ~IsNull(txn)
    /\ Val(txn).credited \/ txn_referrer = {}
    /\ LET t == Val(txn) IN
         /\ users' = users @@ (t.user_id :>
                                 NewUserRow(t.name, t.referral_code, t.referred_by,
                                            Cardinality(DOMAIN users)))
         /\ profiles' = profiles @@ (t.user_id :> EmptyProfile)
         /\ conv' = [conv EXCEPT ![t.user_id] = "GENDER"]
         /\ last' = Reply(t.user_id, "start", Arg(t.referred_by), "ask_gender")
    /\ txn' = NoTxn
    /\ UNCHANGED <<likes, search_conv, admin_conv, user_data, shown, grants>>

\* ------------------------------------------------------ profile creation

gender(u, t) ==
    /\ Idle
    /\ conv[u] = "GENDER" /\ IsGenderText(t)
    /\ profiles' = update_profile(profiles, u, "gender", t)
    /\ conv' = [conv EXCEPT ![u] = "AGE"]
    /\ last' = Reply(u, "gender", t, "ask_age")
    /\ UNCHANGED <<users, likes, txn, search_conv, admin_conv, user_data, shown, grants>>

\* Faulty variant: a range test without the upper limit.
valid_age_upper_open(n) == MinAge <= n

\* 18 <= user_age <= 99 of main.py:111.
valid_age(n) == MinAge <= n /\ n <= MaxAge

age(u, t) ==
    /\ Idle
    /\ conv[u] = "AGE"
    /\ IF ~IsNull(IntOf(t)) /\ valid_age(Val(IntOf(t)))
       THEN /\ profiles' = update_profile(profiles, u, "age", Val(IntOf(t)))
            /\ conv' = [conv EXCEPT ![u] = "BIO"]
            /\ last' = Reply(u, "age", t, "ask_bio")
       ELSE /\ last' = Reply(u, "age", t, "reprompt")
            /\ UNCHANGED <<profiles, conv>>
    /\ UNCHANGED <<users, likes, txn, search_conv, admin_conv, user_data, shown, grants>>

bio(u, t) ==
    /\ Idle
    /\ conv[u] = "BIO"
    /\ profiles' = update_profile(profiles, u, "bio", t)
    /\ conv' = [conv EXCEPT ![u] = "PHOTO"]
    /\ last' = Reply(u, "bio", t, "ask_photo")
    /\ UNCHANGED <<users, likes, txn, search_conv, admin_conv, user_data, shown, grants>>

photo(u, f) ==
    /\ Idle
    /\ conv[u] = "PHOTO"
    /\ profiles' = update_profile(profiles, u, "photo_id", f)
    /\ conv' = [conv EXCEPT ![u] = "LOCATION"]
    /\ last' = Reply(u, "photo", f, "ask_location")
    /\ UNCHANGED <<users, likes, txn, search_conv, admin_conv, user_data, shown, grants>>

location(u, t) ==
    /\ Idle
    /\ conv[u] = "LOCATION"
    /\ profiles' = update_profile(profiles, u, "location", t)
    /\ conv' = [conv EXCEPT ![u] = END]
    /\ last' = Reply(u, "location", t, "complete")
    /\ UNCHANGED <<users, likes, txn, search_conv, admin_conv, user_data, shown, grants>>


\* ---------------------------------------------------------------- /cancel

\* The fallback of the first handler, in the order of main.py:531-533, that
\* holds a conversation for the user; it alone sees the update.
cancel(u) ==
    /\ Idle
    /\ \/ conv[u] # END
       \/ search_conv[u] # END
       \/ admin_conv[u] # END
    /\ IF conv[u] # END
       THEN /\ conv' = [conv EXCEPT ![u] = END]
            /\ UNCHANGED <<search_conv, admin_conv>>
       ELSE IF search_conv[u] # END
       THEN /\ search_conv' = [search_conv EXCEPT ![u] = END]
            /\ UNCHANGED <<conv, admin_conv>>
       ELSE /\ admin_conv' = [admin_conv EXCEPT ![u] = END]
            /\ UNCHANGED <<conv, search_conv>>
    /\ last' = Reply(u, "cancel", "/cancel", "cancelled")
    /\ UNCHANGED <<store, txn, user_data, shown, grants>>

\* ------------------------------------------------------- callback queries

MenuData == {"search", "my_profile", "referral", "store"}

AdminMenuData ==
    {"admin_list_users", "admin_grant_coins", "admin_grant_premium",
     "admin_ban_user", "admin_unban_user", "main_menu_back"}

\* f"like_{target_user_id}" of main.py:292.
LikeData(x) ==
    CASE x = 1 -> "like_1"
      [] x = 2 -> "like_2"
      [] x = 3 -> "like_3"
      [] OTHER -> "like_4"

\* int(data.split("_")[1]) of main.py:323.
LikeTarget(d) ==
    CASE d = "like_1" -> 1
      [] d = "like_2" -> 2
      [] d = "like_3" -> 3
      [] OTHER -> 4

\* pattern "^(like_|next_profile)" of main.py:511.
IsProfileData(d) == d \in {"like_1", "like_2", "like_3", "like_4", "next_profile"}

\* pattern "^admin_" of main.py:519.
IsAdminData(d) ==
    d \in {"admin_menu", "admin_list_users", "admin_grant_coins",
           "admin_grant_premium", "admin_ban_user", "admin_unban_user"}

\* The buttons a user can press: those of the main menu (menu, main.py:168-175,
\* is sent on every /menu), those of the admin menu (admin_menu_command sends
\* it to an admin on every /admin), and those of the profile cards sent so far.
\* A press can arrive after the card was edited or deleted.
Pressable(u) ==
    MenuData
    \cup (IF is_admin(u) THEN {"admin_menu"} \cup AdminMenuData ELSE {})
    \cup {LikeData(x) : x \in shown[u]}
    \cup (IF shown[u] # {} THEN {"next_profile"} ELSE {})

search_takes_callback(u, d) ==
    \/ search_conv[u] = END /\ d = "search"
    \/ search_conv[u] = "VIEW_PROFILE" /\ IsProfileData(d)

admin_takes_callback(u, d) ==
    /\ ~search_takes_callback(u, d)
    /\ \/ admin_conv[u] = END /\ IsAdminData(d)
       \/ admin_conv[u] = "ADMIN_MENU"

\* ------------------------------------------------------------- main menu

menu(u) ==
    /\ Idle
    /\ last' = Reply(u, "menu", "/menu", "menu")
    /\ UNCHANGED <<store, txn, sessions, grants>>

\* admin_menu_command's answer: the admin menu, a denial through the callback
\* query, or an AttributeError when there is no callback query to edit.
admin_menu_reply(u, via_callback) ==
    IF is_admin(u) THEN "admin_menu"
    ELSE IF via_callback THEN "denied"
    ELSE "error"

\* CommandHandler("admin", admin_menu_command): the returned state is dropped.
admin_menu_command(u) ==
    /\ Idle
    /\ last' = Reply(u, "admin_menu_command", "/admin", admin_menu_reply(u, FALSE))
    /\ UNCHANGED <<store, txn, sessions, grants>>

\* menu_callback, as search_conv_handler's entry point (the returned state is
\* kept) or as the last handler of main.py:536 (it is dropped).
menu_callback(u, d) ==
    /\ Idle
    /\ d \in Pressable(u)
    /\ \/ search_conv[u] = END /\ d = "search"
       \/ ~search_takes_callback(u, d) /\ ~admin_takes_callback(u, d)
    /\ search_conv' =
         IF search_conv[u] = END /\ d = "search"
         THEN [search_conv EXCEPT ![u] = "SEARCH_GENDER"]
         ELSE search_conv
    /\ last' = Reply(u, "menu_callback", d,
                     CASE d = "search" -> "ask_search_gender"
                       [] d \in {"my_profile", "referral", "store"} -> d
                       [] d = "admin_menu" -> admin_menu_reply(u, TRUE)
                       [] OTHER -> "none")
    /\ UNCHANGED <<store, txn, conv, admin_conv, user_data, shown, grants>>

\* ----------------------------------------------------------------- search

search_gender(u, t) ==
    /\ Idle
    /\ search_takes_text(u, t)
    /\ search_conv[u] = "SEARCH_GENDER"
    /\ user_data' = [user_data EXCEPT ![u].search_gender = Some(t)]
    /\ search_conv' = [search_conv EXCEPT ![u] = "SEARCH_AGE_MIN"]
    /\ last' = Reply(u, "search_gender", t, "ask_min_age")
    /\ UNCHANGED <<store, txn, conv, admin_conv, shown, grants>>

search_age_min(u, t) ==
    /\ Idle
    /\ search_takes_text(u, t)
    /\ search_conv[u] = "SEARCH_AGE_MIN"
    /\ IF ~IsNull(IntOf(t)) /\ valid_age(Val(IntOf(t)))
       THEN /\ user_data' = [user_data EXCEPT ![u].search_age_min = IntOf(t)]
            /\ search_conv' = [search_conv EXCEPT ![u] = "SEARCH_AGE_MAX"]
            /\ last' = Reply(u, "search_age_min", t, "ask_max_age")
       ELSE /\ last' = Reply(u, "search_age_min", t, "reprompt")
            /\ UNCHANGED <<user_data, search_conv>>
    /\ UNCHANGED <<store, txn, conv, admin_conv, shown, grants>>

\* view_profile: what it answers for the list results and the cursor index.
\* via_query: it was handed the CallbackQuery in place of the Update
\* (main.py:334, 340), which has no effective_chat for the branch of
\* main.py:298-305.
view_profile(results, index, via_query) ==
    IF results = <<>> \/ index >= Len(results)
    THEN [reply |-> "no_more", target |-> Null]
    ELSE LET target == results[index + 1]
             profile_data == get_user_profile(target)
         IN IF IsNull(profile_data)
            THEN [reply |-> "render_error", target |-> Null]
            ELSE IF ~IsNull(Val(profile_data).photo_id) /\ via_query
            THEN [reply |-> "render_error", target |-> Null]
            ELSE [reply |-> "profile", target |-> Some(target)]

\* user_data.get("search_results", []) and user_data.get("search_index", 0)
results_of(u) ==
    IF IsNull(user_data[u].search_results) THEN <<>> ELSE Val(user_data[u].search_results)

index_of(u) ==
    IF IsNull(user_data[u].search_index) THEN 0 ELSE Val(user_data[u].search_index)

\* Faulty variant: a range test that forgets the minimum age.
valid_max_age_no_min(min_age, max_age) == max_age <= MaxAge

\* min_age <= max_age <= 99 of main.py:256.
valid_max_age(min_age, max_age) == min_age <= max_age /\ max_age <= MaxAge

search_age_max(u, t) ==
    /\ Idle
    /\ search_takes_text(u, t)
    /\ search_conv[u] = "SEARCH_AGE_MAX"
    /\ IF /\ ~IsNull(IntOf(t))
          /\ valid_max_age(Val(user_data[u].search_age_min), Val(IntOf(t)))
       THEN \E results \in search_users(u, Val(user_data[u].search_gender),
                                        Val(user_data[u].search_age_min),
                                        Val(IntOf(t))) :
              IF results = <<>>
              THEN /\ search_conv' = [search_conv EXCEPT ![u] = END]
                   /\ last' = Reply(u, "search_age_max", t, "no_users")
                   /\ UNCHANGED <<user_data, shown>>
              ELSE LET v == view_profile(results, 0, FALSE) IN
                   /\ user_data' = [user_data EXCEPT
                                      ![u].search_results = Some(results),
                                      ![u].search_index = Some(0)]
                   /\ search_conv' = [search_conv EXCEPT ![u] = "VIEW_PROFILE"]
                   /\ IF v.reply = "profile"
                      THEN /\ shown' = [shown EXCEPT ![u] = @ \cup {Val(v.target)}]
                           /\ last' = Rendered(u, "search_age_max", t, Val(v.target))
                      ELSE /\ last' = Reply(u, "search_age_max", t, v.reply)
                           /\ UNCHANGED shown
       ELSE /\ last' = Reply(u, "search_age_max", t, "reprompt")
            /\ UNCHANGED <<user_data, search_conv, shown>>
    /\ UNCHANGED <<store, txn, conv, admin_conv, grants>>

\* profile_callback.  delivered: bot.send_message to the liked user succeeds
\* (it raises when that user cannot be reached, before the cursor moves).
\* The handler answers VIEW_PROFILE whatever view_profile returned.
profile_callback(u, d, delivered) ==
    /\ Idle
    /\ d \in Pressable(u)
    /\ search_conv[u] = "VIEW_PROFILE" /\ IsProfileData(d)
    /\ index_of(u) < MaxIndex
    /\ IF d # "next_profile" /\ ~delivered
       THEN /\ last' = Reply(u, "profile_callback", d, "notify_error")
            /\ UNCHANGED <<user_data, shown>>
       ELSE LET v == view_profile(results_of(u), index_of(u) + 1, TRUE) IN
            /\ user_data' = [user_data EXCEPT ![u].search_index = Some(index_of(u) + 1)]
            /\ IF v.reply = "profile"
               THEN /\ shown' = [shown EXCEPT ![u] = @ \cup {Val(v.target)}]
                    /\ last' = Rendered(u, "profile_callback", d, Val(v.target))
               ELSE /\ last' = Reply(u, "profile_callback", d, v.reply)
                    /\ UNCHANGED shown
    /\ UNCHANGED <<store, txn, conv, search_conv, admin_conv, grants>>

\* ------------------------------------------------------------------ admin

admin_menu_callback(u, d) ==
    /\ Idle
    /\ d \in Pressable(u)
    /\ admin_takes_callback(u, d)
    /\ admin_conv' =
         [admin_conv EXCEPT ![u] =
            CASE d = "admin_grant_coins" -> "ADMIN_GRANT_COINS"
              [] d = "admin_grant_premium" -> "ADMIN_GRANT_PREMIUM"
              [] d = "admin_ban_user" -> "ADMIN_BAN_USER"
              [] d = "admin_unban_user" -> "ADMIN_UNBAN_USER"
              [] d = "main_menu_back" -> END
              [] OTHER -> "ADMIN_MENU"]
    /\ last' = Reply(u, "admin_menu_callback", d,
                     CASE d = "admin_list_users" ->
                            (IF DOMAIN users = {} THEN "no_users" ELSE "user_list")
                       [] d \in {"admin_grant_coins", "admin_grant_premium",
                                 "admin_ban_user", "admin_unban_user"} -> "ask_target"
                       [] d = "main_menu_back" -> "back"
                       [] OTHER -> "none")
    /\ UNCHANGED <<store, txn, conv, search_conv, user_data, shown, grants>>

\* The end of the admin sub-state handlers: admin_menu_command(update, context)
\* and return ADMIN_MENU.  A sender who is no admin makes admin_menu_command
\* raise (the update carries no callback query), and the state stays.
back_to_admin_menu(u, h, t, reply) ==
    IF is_admin(u)
    THEN /\ admin_conv' = [admin_conv EXCEPT ![u] = "ADMIN_MENU"]
         /\ last' = Reply(u, h, t, reply)
    ELSE /\ last' = Reply(u, h, t, "error")
         /\ UNCHANGED admin_conv

\* coins + amount is a value of the column's type.
fits_integer(coins, amount) ==
    IF amount >= 0 THEN coins <= IntegerMax - amount ELSE coins >= IntegerMin - amount

\* admin_grant_coins.  delivered: bot.send_message to the target succeeds.
admin_grant_coins(u, t, delivered) ==
    /\ Idle
    /\ admin_takes_text(u, t)
    /\ admin_conv[u] = "ADMIN_GRANT_COINS"
    /\ LET words == Split(t) IN
       IF \/ Len(words) # 2
          \/ IsNull(IntOf(words[1]))
          \/ IsNull(IntOf(words[2]))
       THEN /\ back_to_admin_menu(u, "admin_grant_coins", t, "invalid")
            /\ UNCHANGED <<users, grants>>
       ELSE LET target_user_id == Val(IntOf(words[1]))
                amount == Val(IntOf(words[2]))
            IN IF ~user_exists(target_user_id)
               THEN /\ admin_conv' = [admin_conv EXCEPT ![u] = "ADMIN_MENU"]
                    /\ last' = Reply(u, "admin_grant_coins", t, "not_found")
                    /\ UNCHANGED <<users, grants>>
               ELSE IF ~fits_integer(users[target_user_id].coins, amount)
               THEN \* the UPDATE fails with "integer out of range": add_coins
                    \* raises, and so does the handler
                    /\ last' = Reply(u, "admin_grant_coins", t, "store_error")
                    /\ UNCHANGED <<users, grants, admin_conv>>
               ELSE /\ Len(grants) < MaxGrants
                    /\ grants' = Append(grants, <<target_user_id, amount>>)
                    /\ users' = add_coins(users, target_user_id, amount)
                    /\ IF delivered
                       THEN back_to_admin_menu(u, "admin_grant_coins", t, "granted")
                       ELSE /\ last' = Reply(u, "admin_grant_coins", t, "notify_error")
                            /\ UNCHANGED admin_conv
    /\ UNCHANGED <<profiles, likes, txn, conv, search_conv, user_data, shown>>

admin_grant_premium(u, t, delivered) ==
    /\ Idle
    /\ admin_takes_text(u, t)
    /\ admin_conv[u] = "ADMIN_GRANT_PREMIUM"
    /\ IF IsNull(IntOf(t))
       THEN /\ back_to_admin_menu(u, "admin_grant_premium", t, "invalid")
            /\ UNCHANGED users
       ELSE IF ~user_exists(Val(IntOf(t)))
       THEN /\ admin_conv' = [admin_conv EXCEPT ![u] = "ADMIN_MENU"]
            /\ last' = Reply(u, "admin_grant_premium", t, "not_found")
            /\ UNCHANGED users
       ELSE /\ users' = set_premium_status(users, Val(IntOf(t)), TRUE)
            /\ IF delivered
               THEN back_to_admin_menu(u, "admin_grant_premium", t, "granted")
               ELSE /\ last' = Reply(u, "admin_grant_premium", t, "notify_error")
                    /\ UNCHANGED admin_conv
    /\ UNCHANGED <<profiles, likes, txn, conv, search_conv, user_data, shown, grants>>

admin_ban_unban_user(u, t, ban, delivered, h) ==
    /\ IF IsNull(IntOf(t))
       THEN /\ back_to_admin_menu(u, h, t, "invalid")
            /\ UNCHANGED users
       ELSE IF ~user_exists(Val(IntOf(t)))
       THEN /\ admin_conv' = [admin_conv EXCEPT ![u] = "ADMIN_MENU"]
            /\ last' = Reply(u, h, t, "not_found")
            /\ UNCHANGED users
       ELSE /\ users' = set_ban_status(users, Val(IntOf(t)), ban)
            /\ IF delivered
               THEN back_to_admin_menu(u, h, t, IF ban THEN "banned" ELSE "unbanned")
               ELSE /\ last' = Reply(u, h, t, "notify_error")
                    /\ UNCHANGED admin_conv
    /\ UNCHANGED <<profiles, likes, txn, conv, search_conv, user_data, shown, grants>>

admin_ban_user(u, t, delivered) ==
    /\ Idle
    /\ admin_takes_text(u, t)
    /\ admin_conv[u] = "ADMIN_BAN_USER"
    /\ admin_ban_unban_user(u, t, TRUE, delivered, "admin_ban_user")

admin_unban_user(u, t, delivered) ==
    /\ Idle
    /\ admin_takes_text(u, t)
    /\ admin_conv[u] = "ADMIN_UNBAN_USER"
    /\ admin_ban_unban_user(u, t, FALSE, delivered, "admin_unban_user")

\* ------------------------------------------------------------ the program

Payloads == {Null} \cup {Some(c) : c \in Codes}

CallbackData ==
    MenuData \cup {"admin_menu"} \cup AdminMenuData
    \cup {LikeData(x) : x \in Users} \cup {"next_profile"}

Next ==
    \/ \E u \in Users, n \in Names, p \in Payloads, c \in Codes : start(u, n, p, c)
    \/ \E ok \in BOOLEAN : create_user_credit(ok)
    \/ create_user_commit
    \/ \E u \in Users, t \in TextInputs : gender(u, t)
    \/ \E u \in Users, t \in TextInputs : age(u, t)
    \/ \E u \in Users, t \in TextInputs : bio(u, t)
    \/ \E u \in Users, f \in PhotoFiles : photo(u, f)
    \/ \E u \in Users, t \in TextInputs : location(u, t)
    \/ \E u \in Users : cancel(u)
    \/ \E u \in Users : menu(u)
    \/ \E u \in Users : admin_menu_command(u)
    \/ \E u \in Users, d \in CallbackData : menu_callback(u, d)
    \/ \E u \in Users, t \in TextInputs : search_gender(u, t)
    \/ \E u \in Users, t \in TextInputs : search_age_min(u, t)
    \/ \E u \in Users, t \in TextInputs : search_age_max(u, t)
    \/ \E u \in Users, d \in CallbackData, ok \in BOOLEAN : profile_callback(u, d, ok)
    \/ \E u \in Users, d \in CallbackData : admin_menu_callback(u, d)
    \/ \E u \in Users, t \in TextInputs, ok \in BOOLEAN : admin_grant_coins(u, t, ok)
    \/ \E u \in Users, t \in TextInputs, ok \in BOOLEAN : admin_grant_premium(u, t, ok)
    \/ \E u \in Users, t \in TextInputs, ok \in BOOLEAN : admin_ban_user(u, t, ok)
    \/ \E u \in Users, t \in TextInputs, ok \in BOOLEAN : admin_unban_user(u, t, ok)
    \/ \E u \in Users, t \in TextInputs : unhandled_text(u, t)

\* Every user sends every update: the whole program.
Spec == Init /\ [][Next]_vars

\* ----------------------------------------------- sign-up, checked by TLC

\* The users who sign up, the payloads and the texts they send.
SignupUsers == {1, 2}
ProfileUsers == {2}
SignupNames == {"Ann", "Bob"}
SignupPayloads == {Null, Some("c1"), Some("c2")}
SignupCodes == {"c1", "c2"}
SignupAgeTexts == {"17", "18", "99", "100", "abc"}

NextSignup ==
    \/ \E u \in SignupUsers, n \in SignupNames, p \in SignupPayloads, c \in SignupCodes :
         start(u, n, p, c)
    \/ \E ok \in BOOLEAN : create_user_credit(ok)
    \/ create_user_commit
    \/ \E u \in ProfileUsers, t \in Genders : gender(u, t)
    \/ \E u \in ProfileUsers, t \in SignupAgeTexts : age(u, t)
    \/ \E u \in ProfileUsers, t \in BioTexts : bio(u, t)
    \/ \E u \in ProfileUsers, f \in PhotoFiles : photo(u, f)
    \/ \E u \in ProfileUsers, t \in LocationTexts : location(u, t)
    \/ \E u \in SignupUsers : cancel(u)

SpecSignup == Init /\ [][NextSignup]_vars

\* ---------------------------------------------- browsing, checked by TLC

\* The store after earlier sign-ups: user 1 has a complete profile; users 2
\* and 3 have either a complete profile or one abandoned (by /cancel) before
\* the photo, and either of them may have been banned by an admin.
SignedUp(code, g, a, complete, banned) ==
    [user |-> [NewUserRow("Ann", code, Null, 0) EXCEPT !.is_banned = banned],
     profile |-> [gender |-> Some(g), age |-> Some(a), bio |-> Some("hi"),
                  photo_id |-> IF complete THEN Some("ph1") ELSE Null,
                  location |-> IF complete THEN Some("Oslo") ELSE Null]]

Candidates ==
    {SignedUp("c", g, a, complete, banned) :
        g \in {"Male", "Female"}, a \in {18, 99},
        complete \in BOOLEAN, banned \in BOOLEAN}

InitBrowse ==
    /\ \E r2 \in Candidates, r3 \in Candidates :
         /\ users = <<NewUserRow("Ann", "c1", Null, 0),
                      [r2.user EXCEPT !.referral_code = "c2", !.created_at = 1],
                      [r3.user EXCEPT !.referral_code = "c3", !.created_at = 2]>>
         /\ profiles = <<SignedUp("c1", "Male", 18, TRUE, FALSE).profile,
                         r2.profile, r3.profile>>
    /\ likes = {}
    /\ txn = NoTxn
    /\ conv = [u \in Users |-> END]
    /\ search_conv = [u \in Users |-> END]
    /\ admin_conv = [u \in Users |-> END]
    /\ user_data = [u \in Users |-> EmptyUserData]
    /\ shown = [u \in Users |-> {}]
    /\ grants = <<>>
    /\ last = Reply(0, "init", "", "none")

\* The user who searches, and what that user sends.
Searchers == {1}
BrowseGenders == {"Male", "Female"}
BrowseAgeTexts == {"17", "18", "99", "100", "abc"}
BrowseData == {"search", "like_2", "like_3", "next_profile"}

NextBrowse ==
    \/ \E u \in Searchers, d \in BrowseData : menu_callback(u, d)
    \/ \E u \in Searchers, t \in BrowseGenders : search_gender(u, t)
    \/ \E u \in Searchers, t \in BrowseAgeTexts : search_age_min(u, t)
    \/ \E u \in Searchers, t \in BrowseAgeTexts : search_age_max(u, t)
    \/ \E u \in Searchers, d \in BrowseData, ok \in BOOLEAN : profile_callback(u, d, ok)
    \/ \E u \in Searchers : cancel(u)

SpecBrowse == InitBrowse /\ [][NextBrowse]_vars

\* ------------------------------------ two profiles at once, checked by TLC

\* The state after /start of users 1 and 2: both rows and both empty profiles
\* are stored and both users are asked for their gender.
InitProfiles ==
    /\ users = (1 :> NewUserRow("Ann", "c1", Null, 0)) @@
                (2 :> NewUserRow("Bob", "c2", Some("c1"), 1))
    /\ profiles = (1 :> EmptyProfile) @@ (2 :> EmptyProfile)
    /\ likes = {}
    /\ txn = NoTxn
    /\ conv = [u \in Users |-> IF u \in {1, 2} THEN "GENDER" ELSE END]
    /\ search_conv = [u \in Users |-> END]
    /\ admin_conv = [u \in Users |-> END]
    /\ user_data = [u \in Users |-> EmptyUserData]
    /\ shown = [u \in Users |-> {}]
    /\ grants = <<>>
    /\ last = Reply(0, "init", "", "none")

\* The texts the two users send.
GenderTexts == Genders \cup {"male", "abc", "18"}
ProfileAgeTexts == {"18", "100", "abc"}

NextProfiles ==
    \/ \E u \in SignupUsers, t \in GenderTexts : gender(u, t)
    \/ \E u \in SignupUsers, t \in ProfileAgeTexts : age(u, t)
    \/ \E u \in SignupUsers, t \in BioTexts : bio(u, t)
    \/ \E u \in SignupUsers, f \in PhotoFiles : photo(u, f)
    \/ \E u \in SignupUsers, t \in LocationTexts : location(u, t)
    \/ \E u \in SignupUsers, t \in GenderTexts : unhandled_text(u, t)
    \/ \E u \in SignupUsers : cancel(u)

SpecProfiles == InitProfiles /\ [][NextProfiles]_vars

\* ------------------------------------- db.update_profile, checked by TLC

\* A call of db.update_profile by any caller.
update_profile_call(user_id, field, value) ==
    /\ Idle
    /\ profiles' = update_profile(profiles, user_id, field, value)
    /\ last' = Reply(user_id, "update_profile", field,
                     IF IsNull(assigned_column(field))
                     THEN "undefined_column" ELSE "updated")
    /\ UNCHANGED <<users, likes, txn, sessions, grants>>

\* The field names and values of the calls: the five columns, a name that is
\* no column, and a piece of SQL in place of a name.
FieldCalls ==
    {<<"gender", "Male">>, <<"age", 18>>, <<"bio", "hi">>, <<"photo_id", "ph1">>,
     <<"location", "Oslo">>, <<"nickname", "hi">>, <<"bio = bio, gender", "Other">>}

NextFields ==
    \E u \in SignupUsers, c \in FieldCalls : update_profile_call(u, c[1], c[2])

SpecFields == InitProfiles /\ [][NextFields]_vars

\* ------------------------------------------ db.add_coins, checked by TLC

\* A call of db.add_coins made while other work is going on (a second worker
\* handling an admin grant): one "UPDATE users SET coins = coins + $1 WHERE
\* user_id = $2", which the store applies to the row as one step, also while a
\* create_user transaction is open.
add_coins_call(user_id, amount) ==
    /\ Len(grants) < MaxGrants
    /\ user_exists(user_id)
    /\ fits_integer(users[user_id].coins, amount)
    /\ users' = add_coins(users, user_id, amount)
    /\ grants' = Append(grants, <<user_id, amount>>)
    /\ last' = Reply(0, "add_coins", "", "credited")
    /\ UNCHANGED <<profiles, likes, txn, sessions>>

\* User 1 is stored; users 2 and 3 are not.
InitCredits ==
    /\ users = (1 :> NewUserRow("Ann", "c1", Null, 0))
    /\ profiles = (1 :> EmptyProfile)
    /\ likes = {}
    /\ txn = NoTxn
    /\ conv = [u \in Users |-> END]
    /\ search_conv = [u \in Users |-> END]
    /\ admin_conv = [u \in Users |-> END]
    /\ user_data = [u \in Users |-> EmptyUserData]
    /\ shown = [u \in Users |-> {}]
    /\ grants = <<>>
    /\ last = Reply(0, "init", "", "none")

\* Users 2 and 3 sign up, with or without user 1's code, while coins are
\* granted to user 1.
CreditAmounts == {100, 0 - 150}
CreditPayloads == {Null, Some("c1")}

NextCredits ==
    \/ \E u \in {2, 3}, payload \in CreditPayloads :
          start(u, "Bob", payload, IF u = 2 THEN "c2" ELSE "c3")
    \/ \E ok \in BOOLEAN : create_user_credit(ok)
    \/ create_user_commit
    \/ \E amount \in CreditAmounts : add_coins_call(1, amount)

SpecCredits == InitCredits /\ [][NextCredits]_vars

\* ------------------------------------------- administration, checked by TLC

\* The store after three sign-ups with complete profiles; nobody is in a
\* conversation.  User 1 is the admin.
InitAdmin ==
    /\ users = <<NewUserRow("Ann", "c1", Null, 0),
                 NewUserRow("Bob", "c2", Null, 1),
                 NewUserRow("Ann", "c3", Null, 2)>>
    /\ profiles = [u \in Users |-> SignedUp("c", "Male", 18, TRUE, FALSE).profile]
    /\ likes = {}
    /\ txn = NoTxn
    /\ conv = [u \in Users |-> END]
    /\ search_conv = [u \in Users |-> END]
    /\ admin_conv = [u \in Users |-> END]
    /\ user_data = [u \in Users |-> EmptyUserData]
    /\ shown = [u \in Users |-> {}]
    /\ grants = <<>>
    /\ last = Reply(0, "init", "", "none")

\* The admin and one user who is no admin, and the buttons they press.
AdminActors == {1, 2}
AdminPresses == {"search", "my_profile", "admin_menu"} \cup AdminMenuData

NextAdmin ==
    \/ \E u \in AdminActors : menu(u)
    \/ \E u \in AdminActors : admin_menu_command(u)
    \/ \E u \in AdminActors, d \in AdminPresses : menu_callback(u, d)
    \/ \E u \in AdminActors, d \in AdminPresses : admin_menu_callback(u, d)
    \/ \E u \in AdminActors, t \in AdminLines, ok \in BOOLEAN : admin_grant_coins(u, t, ok)
    \/ \E u \in AdminActors, t \in AdminLines, ok \in BOOLEAN : admin_grant_premium(u, t, ok)
    \/ \E u \in AdminActors, t \in AdminLines, ok \in BOOLEAN : admin_ban_user(u, t, ok)
    \/ \E u \in AdminActors, t \in AdminLines, ok \in BOOLEAN : admin_unban_user(u, t, ok)
    \/ \E u \in AdminActors, t \in AdminLines : unhandled_text(u, t)
    \/ \E u \in AdminActors : cancel(u)

SpecAdmin == InitAdmin /\ [][NextAdmin]_vars

\* ------------------------------------------------------------ properties

\* The step handles an update of user u (last records every handled update).
Sent(u) == last' # last /\ last'.user = u

\* C1: a user without a record who sends /start, a gender among Male, Female
\* and Other, an age in 18..99, a bio, a photo and a location, in that order,
\* passes GENDER, AGE, BIO, PHOTO and LOCATION and ends outside the
\* conversation; every step stores exactly the value sent in its own column
\* and leaves the other columns as they are, so that the profile then holds
\* the five values as sent.
C1_Stages ==
    \A u \in DOMAIN profiles :
      LET p == profiles[u] IN
        /\ conv[u] = "GENDER" => p = EmptyProfile
        /\ conv[u] = "AGE" =>
             /\ ~IsNull(p.gender)
             /\ [p EXCEPT !.gender = Null] = EmptyProfile
        /\ conv[u] = "BIO" =>
             /\ ~IsNull(p.gender) /\ ~IsNull(p.age)
             /\ [p EXCEPT !.gender = Null, !.age = Null] = EmptyProfile
        /\ conv[u] = "PHOTO" =>
             /\ ~IsNull(p.gender) /\ ~IsNull(p.age) /\ ~IsNull(p.bio)
             /\ IsNull(p.photo_id) /\ IsNull(p.location)
        /\ conv[u] = "LOCATION" =>
             /\ ~IsNull(p.gender) /\ ~IsNull(p.age) /\ ~IsNull(p.bio)
             /\ ~IsNull(p.photo_id) /\ IsNull(p.location)
        /\ (last.user = u /\ last.handler = "location") =>
             /\ conv[u] = END
             /\ ~IsNull(p.gender) /\ ~IsNull(p.age) /\ ~IsNull(p.bio)
             /\ ~IsNull(p.photo_id) /\ p.location = Some(last.input)

C1_Step(u) ==
    LET t == last'.input IN
      /\ (u \notin DOMAIN users /\ u \in DOMAIN users') =>
           conv'[u] = "GENDER" /\ profiles'[u] = EmptyProfile
      /\ (Sent(u) /\ conv[u] = "GENDER" /\ t \in {"Male", "Female", "Other"}) =>
           /\ conv'[u] = "AGE"
           /\ profiles'[u] = [profiles[u] EXCEPT !.gender = Some(t)]
      /\ (Sent(u) /\ conv[u] = "AGE" /\ t \in {"18", "99"}) =>
           /\ conv'[u] = "BIO"
           /\ profiles'[u] =
                [profiles[u] EXCEPT !.age = Some(IF t = "18" THEN 18 ELSE 99)]
      /\ (Sent(u) /\ conv[u] = "BIO" /\ t \in BioTexts) =>
           /\ conv'[u] = "PHOTO"
           /\ profiles'[u] = [profiles[u] EXCEPT !.bio = Some(t)]
      /\ (Sent(u) /\ conv[u] = "PHOTO" /\ t \in PhotoFiles) =>
           /\ conv'[u] = "LOCATION"
           /\ profiles'[u] = [profiles[u] EXCEPT !.photo_id = Some(t)]
      /\ (Sent(u) /\ conv[u] = "LOCATION" /\ t \in LocationTexts) =>
           /\ conv'[u] = END
           /\ profiles'[u] = [profiles[u] EXCEPT !.location = Some(t)]

C1_ProfileCreation == []C1_Stages /\ [][\A u \in Users : C1_Step(u)]_vars

C1_Witness ==
    \E u \in DOMAIN profiles :
      /\ conv[u] = END
      /\ last = Reply(u, "location", "Oslo", "complete")
      /\ profiles[u] = [gender |-> Some("Other"), age |-> Some(99), bio |-> Some("hi"),
                        photo_id |-> Some("ph1"), location |-> Some("Oslo")]

\* C2: in AGE, a text that is no number or a number outside 18..99 changes
\* neither the stored age nor the state; a number in 18..99 is stored and
\* moves the user to BIO; so a stored age is always unset or in 18..99.
C2_StoredAges ==
    \A u \in DOMAIN profiles :
      \/ IsNull(profiles[u].age)
      \/ 18 <= Val(profiles[u].age) /\ Val(profiles[u].age) <= 99

C2_Step(u) ==
    LET n == IntOf(last'.input) IN
      (Sent(u) /\ conv[u] = "AGE" /\ last'.input # "/cancel") =>
        IF ~IsNull(n) /\ 18 <= Val(n) /\ Val(n) <= 99
        THEN conv'[u] = "BIO" /\ profiles'[u].age = n
        ELSE conv'[u] = "AGE" /\ profiles' = profiles

C2_AgeValidation == []C2_StoredAges /\ [][\A u \in Users : C2_Step(u)]_vars

C2_Witness ==
    \E u \in DOMAIN profiles :
      /\ conv[u] = "AGE"
      /\ last = Reply(u, "age", "100", "reprompt")
      /\ IsNull(profiles[u].age)

\* The users created after b whose referring code is b's referral code.
ReferredBy(b) ==
    {a \in DOMAIN users :
        /\ users[a].referred_by = Some(users[b].referral_code)
        /\ users[a].created_at > users[b].created_at}

\* The open create_user call has credited b and has not yet committed.
PendingCredit(b) ==
    IF /\ ~IsNull(txn)
       /\ Val(txn).credited
       /\ Val(txn).referred_by = Some(users[b].referral_code)
    THEN 1 ELSE 0

\* C3: when sign-up is all that happens, every balance is 100 plus 50 for each
\* user created with this user's referral code while this user existed: the
\* credit is 50, is made once per created user, and never later.  A creation
\* with a code that matches no user changes no balance and ends with the user
\* and an empty profile stored.
C3_Balances ==
    \A b \in DOMAIN users :
      users[b].coins = 100 + 50 * (Cardinality(ReferredBy(b)) + PendingCredit(b))

C3_Unmatched ==
    (/\ ~IsNull(txn)
     /\ \A b \in DOMAIN users : Some(users[b].referral_code) # Val(txn).referred_by
     /\ Some(Val(txn).referral_code) # Val(txn).referred_by)
    => /\ \A b \in DOMAIN users : users'[b] = users[b]
       /\ IsNull(txn') =>
            /\ Val(txn).user_id \in DOMAIN users'
            /\ users'[Val(txn).user_id].referred_by = Val(txn).referred_by
            /\ users'[Val(txn).user_id].coins = 100
            /\ profiles'[Val(txn).user_id] = EmptyProfile

C3_Referral == []C3_Balances /\ [][C3_Unmatched]_vars

C3_Witness ==
    /\ DOMAIN users = {1, 2}
    /\ IsNull(txn)
    /\ users[2].referred_by = Some(users[1].referral_code)
    /\ users[1].coins = 150
    /\ users[1].referred_by = Some(users[2].referral_code)
    /\ users[2].coins = 100

\* C4: the committed tables never show a referral credit without the row of
\* the user whose creation earned it (nor that row without the credit).
C4_AtomicCreation ==
    \A b \in DOMAIN users :
      users[b].coins = 100 + 50 * Cardinality(ReferredBy(b))

\* C5: a create_user call that got as far as the referrer ends with the user
\* and an empty profile stored and without an error for the caller, also when
\* crediting the referrer fails.
C5_CreditFailureNotFatal ==
    [][(~IsNull(txn) /\ IsNull(txn')) =>
         /\ Val(txn).user_id \in DOMAIN users'
         /\ Val(txn).user_id \in DOMAIN profiles'
         /\ last'.reply # "credit_error"]_vars

\* C6: /start from a user who has a record, whatever name and payload come
\* with it, changes no table and no conversation, credits nobody and answers
\* without an error.
C6_Step(u) ==
    (Sent(u) /\ last'.handler = "start" /\ u \in DOMAIN users) =>
      /\ users' = users /\ profiles' = profiles /\ likes' = likes
      /\ txn' = txn
      /\ conv' = conv /\ search_conv' = search_conv /\ admin_conv' = admin_conv
      /\ last'.reply = "welcome_back"

C6_CreateTwice == [][\A u \in Users : C6_Step(u)]_vars

C6_Witness ==
    \E u \in DOMAIN users :
      /\ last = Reply(u, "start", "c2", "welcome_back")
      /\ users[u].referred_by = Null
      /\ users[u].coins = 100
      /\ \A b \in DOMAIN users : users[b].referral_code # "c2"

\* C7: once a press of Like on candidate c by user u has been handled without
\* an error, the edge (u, c) is in likes.
C7_LikeRecorded ==
    (/\ last.handler = "profile_callback"
     /\ last.input \in {"like_1", "like_2", "like_3"}
     /\ last.reply \notin {"notify_error", "render_error"})
    => <<last.user, LikeTarget(last.input)>> \in likes

\* C8: whatever the searcher, the gender and the age range, search_users
\* returns at most 20 ids, without repetition, none the searcher's, each of a
\* user who is not banned and whose stored gender and age match; and so does
\* the list a search has just put into user_data.
C8_Matches(res, s, g, lo, hi) ==
    /\ Len(res) <= 20
    /\ \A i \in 1..Len(res) :
         /\ res[i] # s
         /\ res[i] \in DOMAIN users /\ res[i] \in DOMAIN profiles
         /\ ~users[res[i]].is_banned
         /\ profiles[res[i]].gender = Some(g)
         /\ ~IsNull(profiles[res[i]].age)
         /\ lo <= Val(profiles[res[i]].age) /\ Val(profiles[res[i]].age) <= hi
         /\ \A j \in 1..Len(res) : res[j] = res[i] => j = i

C9_BrowsingTermination ==
    \A u \in Users :
      /\ search_conv[u] = "VIEW_PROFILE" => results_of(u) # <<>>
      /\ (last.user = u /\ last.handler = "search_age_max" /\ last.reply = "no_users")
           => search_conv[u] = END
      /\ (last.user = u /\ last.handler = "search_age_max"
            /\ search_conv[u] = "VIEW_PROFILE")
           => /\ index_of(u) = 0
              /\ last.rendered = Some(results_of(u)[1])
      /\ (last.user = u /\ last.handler = "profile_callback"
            /\ last.reply # "notify_error")
           => IF index_of(u) < Len(results_of(u))
              THEN last.rendered = Some(results_of(u)[index_of(u) + 1])
              ELSE last.reply = "no_more"

\* C10: once an advance has moved the cursor past the end of the list, the
\* user is out of VIEW_PROFILE and the list and the cursor are gone.
C10_EndOfList ==
    \A u \in Users :
      (last.user = u /\ last.handler = "profile_callback" /\ last.reply = "no_more")
      => /\ search_conv[u] = END
         /\ IsNull(user_data[u].search_results)
         /\ IsNull(user_data[u].search_index)

\* The step is the handling, by handler h, of an update of user u.
Handled(u, h) ==
    /\ last'.user = u /\ last'.handler = h
    /\ last' # last \/ users' # users \/ admin_conv' # admin_conv

\* The line has the form "UserID Amount" with two integers.
GrantLine(t) ==
    /\ Len(Split(t)) = 2
    /\ ~IsNull(IntOf(Split(t)[1]))
    /\ ~IsNull(IntOf(Split(t)[2]))

\* What a coin grant does to the balances; in_range_only restricts the first
\* half to amounts whose sum with the balance the coins column can hold.
GrantEffect(u, in_range_only) ==
    LET t == last'.input
        target == Val(IntOf(Split(t)[1]))
        n == Val(IntOf(Split(t)[2]))
    IN (Handled(u, "admin_grant_coins") /\ GrantLine(t)) =>
         IF target \in DOMAIN users
         THEN (in_range_only => fits_integer(users[target].coins, n)) =>
                /\ DOMAIN users' = DOMAIN users
                /\ users'[target].coins - users[target].coins = n
                /\ \A o \in DOMAIN users \ {target} : users'[o].coins = users[o].coins
         ELSE /\ last'.reply = "not_found"
              /\ \A o \in DOMAIN users : users'[o].coins = users[o].coins

\* C11 (as claimed): a coin grant of any integer n to an existing user changes
\* that user's balance by exactly n and no other balance; a grant to an id
\* without a user answers "not found" and changes no balance.
C11_GrantAnyInteger == [][\A u \in Users : GrantEffect(u, FALSE)]_vars

\* C11 (amended): the same for every n whose sum with the balance is a value
\* of the four-byte INTEGER column coins.
C11_GrantInRange == [][\A u \in Users : GrantEffect(u, TRUE)]_vars

C11_Witness ==
    /\ last = Reply(1, "admin_grant_coins", "3 -150", "granted")
    /\ users[3].coins = 0 - 50
    /\ users[1].coins = 100 /\ users[2].coins = 100
    /\ admin_conv[1] = "ADMIN_MENU"

\* C12: /start from a user without a record ends with the user stored, the
\* payload as referring code (none if absent) and the user in GENDER, the
\* referrer having been credited when the payload is the referral code of a
\* stored user; /start from a stored user changes no conversation state and
\* no stored record.
C12_NewUser ==
    (/\ ~IsNull(txn) /\ IsNull(txn')
     /\ Some(Val(txn).referral_code) # Val(txn).referred_by)
    => LET id == Val(txn).user_id IN
         /\ id \in DOMAIN users' /\ id \in DOMAIN profiles'
         /\ users'[id].referred_by = Val(txn).referred_by
         /\ conv'[id] = "GENDER"
         /\ (\E b \in DOMAIN users : Some(users[b].referral_code) = Val(txn).referred_by)
              => Val(txn).credited

C12_StoredUser(u) ==
    (last' # last /\ last'.user = u /\ last'.handler = "start" /\ u \in DOMAIN users)
    => /\ users' = users /\ profiles' = profiles /\ likes' = likes
       /\ conv' = conv /\ search_conv' = search_conv /\ admin_conv' = admin_conv

C12_Start == [][C12_NewUser /\ \A u \in Users : C12_StoredUser(u)]_vars

\* C13: whatever state the user is in, /cancel leaves the user in no
\* conversation and without session data (search criteria, candidate list,
\* cursor), and changes no stored profile.
C13_Step(u) ==
    (last' # last /\ last'.user = u /\ last'.handler = "cancel")
    => /\ conv'[u] = END /\ search_conv'[u] = END /\ admin_conv'[u] = END
       /\ user_data'[u] = EmptyUserData
       /\ profiles' = profiles

C13_Cancel == [][\A u \in Users : C13_Step(u)]_vars

\* C14: a user is never inside two flows at once: of the profile-creation,
\* the search and the admin conversation at most one holds a state for a user.
C14_OneDialogueState ==
    \A u \in Users :
      Cardinality({c \in {"profile", "search", "admin"} :
                      \/ c = "profile" /\ conv[u] # END
                      \/ c = "search" /\ search_conv[u] # END
                      \/ c = "admin" /\ admin_conv[u] # END}) <= 1

\* C15: a user who is no admin is never in ADMIN_MENU or an admin sub-state,
\* no update of such a user changes a balance, a premium flag or a banned
\* flag, and the user's attempt to open the admin menu is answered with a
\* denial.
C15_State ==
    /\ \A u \in Users \ ADMIN_USER_IDS : admin_conv[u] = END
    /\ (/\ last.user \in Users \ ADMIN_USER_IDS
        /\ \/ last.handler \in {"admin_menu_command", "admin_menu_callback"}
           \/ last.handler = "menu_callback" /\ last.input = "admin_menu")
       => last.reply = "denied"

C15_Step(u) ==
    (last' # last /\ last'.user = u)
    => \A o \in DOMAIN users :
         /\ users'[o].coins = users[o].coins
         /\ users'[o].is_premium = users[o].is_premium
         /\ users'[o].is_banned = users[o].is_banned

C15_NoAdminRights == []C15_State /\ [][\A u \in Users \ ADMIN_USER_IDS : C15_Step(u)]_vars

\* C16: handling an update of user u changes no profile field of another
\* user, and a profile-creation step that succeeds changes exactly one of the
\* five fields of u's profile.
C16_Step(u) ==
    (last'.user = u /\ (last' # last \/ profiles' # profiles))
    => /\ DOMAIN profiles' = DOMAIN profiles
       /\ \A o \in DOMAIN profiles \ {u} : profiles'[o] = profiles[o]
       /\ last'.reply \in {"ask_age", "ask_bio", "ask_photo", "ask_location", "complete"}
            => Cardinality({f \in DOMAIN EmptyProfile :
                              profiles'[u][f] # profiles[u][f]}) = 1

C16_OwnProfileOnly == [][\A u \in Users : C16_Step(u)]_vars

C16_Witness ==
    /\ last = Reply(2, "age", "18", "ask_bio")
    /\ profiles[2] = [EmptyProfile EXCEPT !.gender = Some("Other"), !.age = Some(18)]
    /\ profiles[1] = [EmptyProfile EXCEPT !.gender = Some("Male")]
    /\ conv[1] = "AGE"

\* C20: in GENDER a text equal to Male, Female or Other is stored as the
\* gender and moves the user to AGE; any other text leaves the stored gender
\* and the state as they are; so a stored gender is always unset or one of the
\* three.
C20_StoredGenders ==
    \A u \in DOMAIN profiles :
      \/ IsNull(profiles[u].gender)
      \/ Val(profiles[u].gender) \in {"Male", "Female", "Other"}

C20_Step(u) ==
    (/\ last'.user = u /\ (last' # last \/ profiles' # profiles \/ conv' # conv)
     /\ conv[u] = "GENDER" /\ last'.input # "/cancel")
    => IF last'.input \in {"Male", "Female", "Other"}
       THEN conv'[u] = "AGE" /\ profiles'[u].gender = Some(last'.input)
       ELSE conv'[u] = "GENDER" /\ profiles' = profiles

C20_GenderValidation == []C20_StoredGenders /\ [][\A u \in Users : C20_Step(u)]_vars

C20_Witness ==
    \E u \in DOMAIN profiles :
      /\ conv[u] = "GENDER"
      /\ last = Reply(u, "none", "male", "unhandled")
      /\ profiles[u] = EmptyProfile

\* The step is the handling, by the search handler h, of an update of user u.
SearchHandled(u, h) ==
    /\ last'.user = u /\ last'.handler = h
    /\ last' # last \/ user_data' # user_data \/ search_conv' # search_conv

\* C17: in the search flow a minimum age that is no number or outside 18..99,
\* and a maximum age that is no number, below the collected minimum or above
\* 99, change neither the state nor the collected gender and minimum age; a
\* maximum age with min <= max <= 99 is the only answer that runs the
\* candidate query, and the query runs with the collected gender and minimum.
C17_MinAge(u) ==
    LET n == IntOf(last'.input) IN
      SearchHandled(u, "search_age_min") =>
        IF ~IsNull(n) /\ 18 <= Val(n) /\ Val(n) <= 99
        THEN /\ search_conv'[u] = "SEARCH_AGE_MAX"
             /\ user_data'[u] = [user_data[u] EXCEPT !.search_age_min = n]
        ELSE /\ search_conv'[u] = "SEARCH_AGE_MIN"
             /\ user_data' = user_data

C17_MaxAge(u) ==
    LET n == IntOf(last'.input)
        lo == Val(user_data[u].search_age_min)
        g == Val(user_data[u].search_gender)
    IN SearchHandled(u, "search_age_max") =>
         IF ~IsNull(n) /\ lo <= Val(n) /\ Val(n) <= 99
         THEN /\ user_data'[u].search_gender = Some(g)
              /\ user_data'[u].search_age_min = Some(lo)
              /\ \/ /\ search_conv'[u] = "VIEW_PROFILE"
                    /\ Val(user_data'[u].search_results) # <<>>
                    /\ Val(user_data'[u].search_results) \in search_users(u, g, lo, Val(n))
                 \/ /\ search_conv'[u] = END
                    /\ last'.reply = "no_users"
                    /\ search_users(u, g, lo, Val(n)) = {<<>>}
         ELSE /\ search_conv'[u] = "SEARCH_AGE_MAX"
              /\ user_data' = user_data
              /\ last'.reply = "reprompt"

C17_SearchValidation == [][\A u \in Users : C17_MinAge(u) /\ C17_MaxAge(u)]_vars

C17_Witness ==
    /\ last = Reply(1, "search_age_max", "18", "reprompt")
    /\ search_conv[1] = "SEARCH_AGE_MAX"
    /\ user_data[1].search_age_min = Some(99)
    /\ user_data[1].search_gender = Some("Female")
    /\ IsNull(user_data[1].search_results)

\* The handlers of the four admin sub-states.
AdminSubHandlers ==
    {"admin_grant_coins", "admin_grant_premium", "admin_ban_user", "admin_unban_user"}

\* C18: each admin sub-state puts the admin back in ADMIN_MENU after one line
\* of input, whether the line led to a mutation, named a user who does not
\* exist or was malformed; in the last two cases no balance and no flag
\* changes.
C18_Step(u) ==
    \A h \in AdminSubHandlers :
      (Handled(u, h) /\ last'.reply # "store_error")
      => /\ admin_conv'[u] = "ADMIN_MENU"
         /\ last'.reply \in {"not_found", "invalid"} => users' = users

C18_BackToAdminMenu == [][\A u \in Users : C18_Step(u)]_vars

\* C19: a notification that cannot be delivered changes nothing of the action
\* that sends it: an admin mutation stays applied and the admin is back in
\* ADMIN_MENU, and a like moves the cursor forward by one.
C19_Admin(u) ==
    \A h \in AdminSubHandlers :
      (Handled(u, h) /\ users' # users) => admin_conv'[u] = "ADMIN_MENU"

C19_Like(u) ==
    (/\ last'.user = u /\ last' # last
     /\ last'.handler = "profile_callback"
     /\ last'.input \in {"like_1", "like_2", "like_3"})
    => user_data'[u].search_index = Some(index_of(u) + 1)

C19_NotificationFailure == [][\A u \in Users : C19_Admin(u) /\ C19_Like(u)]_vars

\* C21: update_profile accepts only the fields gender, age, bio, photo_id and
\* location: a call with any other field is rejected and changes no stored
\* record.
C21_Step ==
    (/\ last'.handler = "update_profile"
     /\ last' # last \/ profiles' # profiles
     /\ last'.input \notin {"gender", "age", "bio", "photo_id", "location"})
    => /\ last'.reply # "updated"
       /\ profiles' = profiles /\ users' = users /\ likes' = likes

C21_FixedFields == [][C21_Step]_vars

\* The sum of the amounts of the applied grants from position i on whose
\* target is b.
RECURSIVE GrantTotalFrom(_, _)
GrantTotalFrom(b, i) ==
    IF i > Len(grants) THEN 0
    ELSE (IF grants[i][1] = b THEN grants[i][2] ELSE 0) + GrantTotalFrom(b, i + 1)

GrantTotal(b) == GrantTotalFrom(b, 1)

\* C22: coin credits to one user that interleave (grants with one another and
\* with the referral credits of open create_user calls) are never lost: in
\* every interleaving the balance is the balance at the start plus the sum of
\* the amounts credited so far, hence also when all of them are complete.
C22_NoLostCredit ==
    \A b \in DOMAIN users :
      users[b].coins = 100 + 50 * (Cardinality(ReferredBy(b)) + PendingCredit(b))
                           + GrantTotal(b)

\* A grant was applied while a create_user call was open whose referral credit
\* to the same user is made and not yet committed, after an earlier referral
\* credit and an earlier grant.
C22_Witness ==
    /\ ~IsNull(txn)
    /\ Val(txn).credited
    /\ Val(txn).referred_by = Some("c1")
    /\ last.handler = "add_coins"
    /\ Len(grants) = 2
    /\ Cardinality(ReferredBy(1)) = 1
    /\ users[1].coins = 100 + 50 + 50 + GrantTotal(1)
    /\ GrantTotal(1) = 0 - 50

\* C23: a user in VIEW_PROFILE holds a non-empty result list and a cursor with
\* 0 <= cursor < length of the list; every like or next that is handled to its
\* end advances the cursor by exactly 1, and the cursor changes in no other way
\* than by a new search that sets it to 0.
C23_State ==
    \A u \in Users :
      search_conv[u] = "VIEW_PROFILE"
      => /\ ~IsNull(user_data[u].search_results)
         /\ ~IsNull(user_data[u].search_index)
         /\ Len(results_of(u)) > 0
         /\ 0 <= index_of(u)
         /\ index_of(u) < Len(results_of(u))

C23_Step ==
    \A u \in Users :
      /\ (/\ last'.user = u /\ last'.handler = "profile_callback"
          /\ last'.reply # "notify_error"
          /\ last' # last \/ user_data' # user_data)
         => index_of(u)' = index_of(u) + 1
      /\ index_of(u)' # index_of(u)
         => \/ /\ index_of(u)' = index_of(u) + 1
               /\ last'.user = u /\ last'.handler = "profile_callback"
            \/ /\ index_of(u)' = 0
               /\ last'.user = u /\ last'.handler = "search_age_max"

C23_BrowsingCursor == []C23_State /\ [][C23_Step]_vars

\* C24: the states GENDER .. LOCATION are entered only by /start of a user who
\* has no record, and the state entered is GENDER; once a user has a record and
\* is out of profile creation, no update puts that user into one of these
\* states again (a /start after a /cancel included) and the user's profile
\* stays as it was left.
C24_State ==
    \A u \in Users : conv[u] # END => u \in DOMAIN users

C24_Step ==
    \A u \in Users :
      /\ (conv[u] = END /\ conv'[u] # END)
         => /\ u \notin DOMAIN users
            /\ conv'[u] = "GENDER"
            /\ last'.user = u /\ last'.handler = "start"
      /\ (conv[u] # "GENDER" /\ conv'[u] = "GENDER") => u \notin DOMAIN users
      /\ (u \in DOMAIN users /\ conv[u] = END)
         => /\ conv'[u] = END
            /\ u \in DOMAIN users'
            /\ profiles'[u] = profiles[u]

C24_EnteredOnce == []C24_State /\ [][C24_Step]_vars

\* User 2 has a record and a profile left incomplete by /cancel after the
\* gender, has sent /start again, and is outside profile creation.
C24_Witness ==
    /\ 2 \in DOMAIN users
    /\ conv[2] = END
    /\ ~IsNull(profiles[2].gender)
    /\ IsNull(profiles[2].age)
    /\ last.user = 2 /\ last.handler = "start" /\ last.reply = "welcome_back"

\* C25: in every state each user's balance is 100 plus 50 times the number of
\* users whose referring code is this user's referral code (the count the
\* referral menu shows) plus the sum of the grants to this user.
C25_BalanceEquation ==
    \A b \in DOMAIN users :
      users[b].coins = 100 + 50 * get_referral_count(b) + GrantTotal(b)

====
